---- MODULE Spec2Model ----
(***************************************************************************)
(* WHALER (src/app.py): one run of the script over a loaded table.         *)
(*                                                                         *)
(* Text is a sequence of one-character strings, so strip, replace, split   *)
(* and float() are computed character by character as Python does.  Money  *)
(* is an integer number of mills (1/1000 of a unit), exact for the decimal *)
(* texts with at most three fraction digits the inputs are drawn from.     *)
(* A missing cell (NaN) and a pandas NaT are the values NaN and NaT.       *)
(* The charts drawn after the ranking card are not modelled.               *)
(***************************************************************************)
EXTENDS Integers, Sequences, FiniteSets, TLC

VARIABLES pc, show_demo, uploaded, has_df, columns, df, error, info,
          pre, post, removed, total, whales, top10, top3,
          total_whales, transactions, days_span, k4_value, k4, ranking

vars == <<pc, show_demo, uploaded, has_df, columns, df, error, info,
          pre, post, removed, total, whales, top10, top3,
          total_whales, transactions, days_span, k4_value, k4, ranking>>

(* ------------------------------ bounds -------------------------------- *)
MaxRowsSchema == 1

MaxRowsCells == 1

MaxRowsKey == 3

MaxRowsLedger == 4

MaxRowsRank == 4

LongRows == 11

(* ------------------------- program constants -------------------------- *)
Top10N == 10

Top3N == 3

(* ------------------------------ values -------------------------------- *)
\* pandas' missing cell: what read_csv gives for an empty field
NaN == <<"<NaN>">>

\* the cell of a column the table does not have (never read by the code)
Absent == <<"<absent>">>

\* pandas' missing timestamp
NaT == -1

isna(x) == x = NaN

\* str(x) / Series.astype(str) of a cell: text stays, NaN reads "nan"
str(x) == IF isna(x) THEN <<"n", "a", "n">> ELSE x

(* ------------------------- Python str methods ------------------------- *)
\* the whitespace str.strip() removes
Whitespace == {" ", "\t", "\n", "\r"}

RECURSIVE lstrip(_)
lstrip(s) == IF s # <<>> /\ Head(s) \in Whitespace THEN lstrip(Tail(s)) ELSE s

RECURSIVE rstrip(_)
rstrip(s) ==
  IF s # <<>> /\ s[Len(s)] \in Whitespace
  THEN rstrip(SubSeq(s, 1, Len(s) - 1))
  ELSE s

strip(s) == rstrip(lstrip(s))

\* s.replace(c, "") for a one-character c
remove(s, c) == SelectSeq(s, LAMBDA x : x # c)

\* s.split(sep)[0] for a one-character sep: the text before the first sep
RECURSIVE split_first(_, _)
split_first(s, sep) ==
  IF s = <<>> \/ Head(s) = sep THEN <<>>
  ELSE <<Head(s)>> \o split_first(Tail(s), sep)

\* `sub in s`
contains(s, sub) ==
  \E i \in 0..(Len(s) - Len(sub)) : SubSeq(s, i + 1, i + Len(sub)) = sub

UpperCase == <<"A","B","C","D","E","F","G","H","I","J","K","L","M",
               "N","O","P","Q","R","S","T","U","V","W","X","Y","Z">>

LowerCase == <<"a","b","c","d","e","f","g","h","i","j","k","l","m",
               "n","o","p","q","r","s","t","u","v","w","x","y","z">>

lower_char(c) ==
  IF \E i \in 1..26 : UpperCase[i] = c
  THEN LowerCase[CHOOSE i \in 1..26 : UpperCase[i] = c]
  ELSE c

lower(s) == [i \in 1..Len(s) |-> lower_char(s[i])]

(* ------------------------------ float() ------------------------------- *)
DigitChars == <<"0","1","2","3","4","5","6","7","8","9">>

IsDigit(c) == \E i \in 1..10 : DigitChars[i] = c

DigitVal(c) == (CHOOSE i \in 1..10 : DigitChars[i] = c) - 1

AllDigits(s) == \A i \in 1..Len(s) : IsDigit(s[i])

RECURSIVE IntVal(_)
IntVal(s) == IF s = <<>> THEN 0 ELSE IntVal(SubSeq(s, 1, Len(s) - 1)) * 10 + DigitVal(s[Len(s)])

\* the fraction digits as mills (first three digits, right-padded with zeros)
FracMills(s) == IntVal(SubSeq(s \o <<"0", "0", "0">>, 1, 3))

\* float(s) on decimal text [sign] digits [. digits]; anything else is a
\* ValueError (ok = FALSE).  Exponents, inf, nan and digit underscores, which
\* float() also reads, are outside the texts the inputs are drawn from.
float(s0) ==
  LET s == strip(s0)
      signed == s # <<>> /\ Head(s) \in {"+", "-"}
      body == IF signed THEN Tail(s) ELSE s
      ip == split_first(body, ".")
      hasdot == Len(ip) < Len(body)
      fp == IF hasdot THEN SubSeq(body, Len(ip) + 2, Len(body)) ELSE <<>>
      wellformed == /\ AllDigits(ip) /\ AllDigits(fp)
                    /\ Len(ip) + Len(fp) > 0
      mag == IntVal(ip) * 1000 + FracMills(fp)
  IN IF wellformed
     THEN [ok |-> TRUE, v |-> IF signed /\ Head(s) = "-" THEN 0 - mag ELSE mag]
     ELSE [ok |-> FALSE, v |-> 0]

(* ----------------------- pd.to_datetime(coerce) ----------------------- *)
IsLeap(y) == (y % 4 = 0 /\ y % 100 # 0) \/ y % 400 = 0

DaysInMonth(y, m) ==
  IF m = 2 THEN (IF IsLeap(y) THEN 29 ELSE 28)
  ELSE IF m \in {4, 6, 9, 11} THEN 30 ELSE 31

RECURSIVE DaysBeforeMonth(_, _)
DaysBeforeMonth(y, m) ==
  IF m = 1 THEN 0 ELSE DaysBeforeMonth(y, m - 1) + DaysInMonth(y, m - 1)

\* the proleptic Gregorian ordinal of a date (date.toordinal)
Ordinal(y, m, d) ==
  365 * (y - 1) + ((y - 1) \div 4) - ((y - 1) \div 100) + ((y - 1) \div 400)
  + DaysBeforeMonth(y, m) + d

\* pd.to_datetime(cell, errors="coerce") on YYYY-MM-DD text: the day's ordinal,
\* NaT for a missing cell, for text that is no date and for a date outside
\* the Timestamp range.  Other date layouts are outside the inputs.
to_datetime(x) ==
  IF isna(x) THEN NaT
  ELSE IF /\ Len(x) = 10
          /\ x[5] = "-" /\ x[8] = "-"
          /\ AllDigits(SubSeq(x, 1, 4)) /\ AllDigits(SubSeq(x, 6, 7))
          /\ AllDigits(SubSeq(x, 9, 10))
       THEN LET y == IntVal(SubSeq(x, 1, 4))
                m == IntVal(SubSeq(x, 6, 7))
                d == IntVal(SubSeq(x, 9, 10))
            IN IF /\ y >= 1678 /\ y <= 2261
                  /\ m >= 1 /\ m <= 12
                  /\ d >= 1 /\ d <= DaysInMonth(y, m)
               THEN Ordinal(y, m, d)
               ELSE NaT
       ELSE NaT

(* ------------------------------ helpers ------------------------------- *)
money_to_float(x) ==
  IF isna(x) THEN 0
  ELSE LET s == remove(remove(strip(str(x)), "$"), ",")
           r == float(s)
       IN IF r.ok THEN r.v ELSE 0

Unknown == <<"U", "n", "k", "n", "o", "w", "n">>

\* isinstance(description, str): a NaN cell is a float, not a str
isstr(x) == ~isna(x)

extract_user(description) ==
  IF ~isstr(description) \/ strip(description) = <<>>
  THEN Unknown
  ELSE split_first(strip(description), " ")

classify_type(description) ==
  LET s == lower(str(description))
  IN IF contains(s, <<"v","i","d","e","o">>)
        \/ contains(s, <<"f","a","c","e","t","i","m","e">>) THEN "Video"
     ELSE IF contains(s, <<"g","i","f","t">>)
             \/ contains(s, <<"r","o","s","e">>) THEN "Gifts"
     ELSE IF contains(s, <<"c","h","a","t">>)
             \/ contains(s, <<"m","e","s","s","a","g","e">>)
             \/ contains(s, <<"t","e","x","t">>) THEN "Chat"
     ELSE "Other"

Sep == <<"|", "|">>

\* variant: a key built from the parsed timestamp and amounts instead of the
\* cell text
make_dedupe_key_parsed(row, cols) ==
  <<row.dt, row.Description, row.amount,
    IF "Debits" \in cols THEN money_to_float(row.Debits) ELSE 0>>

\* make_dedupe_key, for one row of the frame
make_dedupe_key(row, cols) ==
  str(row.Date) \o Sep \o str(row.Description) \o Sep \o str(row.Credits)
  \o Sep \o (IF "Debits" \in cols THEN str(row.Debits) ELSE <<>>)

\* variant: only the Date column is required
required_date_only == {"Date"}

\* variant: the Credits column is not required
required_no_credits == {"Date", "Description"}

required == {"Date", "Description", "Credits"}

(* --------------------------- frame operations ------------------------- *)
RECURSIVE SumAmount(_)
SumAmount(rows) ==
  IF rows = <<>> THEN 0 ELSE Head(rows).amount + SumAmount(Tail(rows))

\* df.dropna(subset=["dt"])
dropna_dt(rows) == SelectSeq(rows, LAMBDA r : r.dt # NaT)

\* variant: keep="last"
RECURSIVE keep_last(_)
keep_last(rows) ==
  IF rows = <<>> THEN <<>>
  ELSE IF \E j \in 2..Len(rows) : rows[j].dedupe_key = Head(rows).dedupe_key
       THEN keep_last(Tail(rows))
       ELSE <<Head(rows)>> \o keep_last(Tail(rows))

RECURSIVE keep_first(_, _)
keep_first(rows, seen) ==
  IF rows = <<>> THEN <<>>
  ELSE IF Head(rows).dedupe_key \in seen
       THEN keep_first(Tail(rows), seen)
       ELSE <<Head(rows)>>
            \o keep_first(Tail(rows), seen \cup {Head(rows).dedupe_key})

drop_duplicates_last(rows) == keep_last(rows)

\* df.drop_duplicates("dedupe_key"): keep="first"
drop_duplicates(rows) == keep_first(rows, {})

Users(rows) == {rows[i].user : i \in 1..Len(rows)}

\* variant: the group of the "Unknown" payer is dropped, as groupby drops a
\* missing key
groupby_sum_dropna(rows) ==
  [u \in Users(rows) \ {Unknown} |->
     SumAmount(SelectSeq(rows, LAMBDA r : r.user = u))]

\* df.groupby("user")["amount"].sum(): one total per user

groupby_sum(rows) ==
  [u \in Users(rows) |-> SumAmount(SelectSeq(rows, LAMBDA r : r.user = u))]

\* variant: ascending=True
RECURSIVE sort_values_asc(_)
sort_values_asc(g) ==
  IF DOMAIN g = {} THEN {<<>>}
  ELSE LET least == {u \in DOMAIN g : \A v \in DOMAIN g : g[u] <= g[v]}
       IN UNION { { <<[user |-> u, amount |-> g[u]]>> \o rest :
                    rest \in sort_values_asc([v \in DOMAIN g \ {u} |-> g[v]]) }
                  : u \in least }

\* Series.sort_values(ascending=False): every descending order of the
\* entries.  The default kind is quicksort, which is not stable, so entries
\* with equal totals may come out in any order.
RECURSIVE sort_values(_)
sort_values(g) ==
  IF DOMAIN g = {} THEN {<<>>}
  ELSE LET greatest == {u \in DOMAIN g : \A v \in DOMAIN g : g[u] >= g[v]}
       IN UNION { { <<[user |-> u, amount |-> g[u]]>> \o rest :
                    rest \in sort_values([v \in DOMAIN g \ {u} |-> g[v]]) }
                  : u \in greatest }

\* Series.head(n)
head(s, n) == SubSeq(s, 1, IF Len(s) < n THEN Len(s) ELSE n)

Days(rows) == {rows[i].day : i \in 1..Len(rows)}

MinOf(S) == CHOOSE x \in S : \A y \in S : x <= y

MaxOf(S) == CHOOSE x \in S : \A y \in S : x >= y

\* n / d rounded to an integer, ties to even (format spec .0f), for d > 0
RoundDiv(n, d) ==
  LET q == n \div d
      r == n % d
  IN IF 2 * r < d THEN q
     ELSE IF 2 * r > d THEN q + 1
     ELSE IF q % 2 = 0 THEN q ELSE q + 1

\* f"{(num / den * 100):.0f}%" in floating point: a zero denominator gives
\* nan or an infinity, not an exception (num is a numpy float64).  The
\* rounding is that of the exact quotient.
percent(num, den) ==
  IF den = 0
  THEN [kind |-> IF num = 0 THEN "nan" ELSE IF num > 0 THEN "inf" ELSE "-inf",
        value |-> 0]
  ELSE [kind |-> "number",
        value |-> IF den > 0 THEN RoundDiv(num * 100, den)
                  ELSE RoundDiv((0 - num) * 100, 0 - den)]

(* ------------------------------- texts -------------------------------- *)
D0201 == <<"2", "0", "2", "6", "-", "0", "2", "-", "0", "1">>

D0202 == <<"2", "0", "2", "6", "-", "0", "2", "-", "0", "2">>

D0203 == <<"2", "0", "2", "6", "-", "0", "2", "-", "0", "3">>

BadDate == <<"n", "/", "a">>

VictorChat == <<"v", "i", "c", "t", "o", "r", " ", "c", "h", "a", "t">>

VictorOther == <<"v", "i", "c", "t", "o", "r", " ", "o", "t", "h", "e", "r">>

OssiumChat == <<"O", "s", "s", "i", "u", "m", " ", "c", "h", "a", "t">>

OssiumGift == <<"O", "s", "s", "i", "u", "m", " ", "g", "i", "f", "t">>

DmanChat == <<"D", "m", "a", "n", "2", "1", "9", " ", "c", "h", "a", "t">>

AmyChat == <<"a", "m", "y", " ", "c", "h", "a", "t">>

BobGift == <<"b", "o", "b", " ", "g", "i", "f", "t">>

KimVideo == <<"k", "i", "m", " ", "v", "i", "d", "e", "o">>

ZedChat == <<"z", "e", "d", " ", "c", "h", "a", "t">>

BobTabChat == <<"b", "o", "b", "\t", "c", "h", "a", "t">>

BobSpacesChat == <<"b", "o", "b", " ", " ", "c", "h", "a", "t">>

PaddedZedGift == <<" ", "z", "e", "d", " ", "g", "i", "f", "t", " ">>

Blank == <<" ", " ">>

Empty == <<>>

C35d == <<"$", "3", "5", ".", "0", "0">>

C459d == <<"$", "4", "5", "9", ".", "0", "0">>

C120d == <<"$", "1", "2", "0", ".", "0", "0">>

C45d == <<"$", "4", "5", ".", "0", "0">>

C329d == <<"$", "3", "2", "9", ".", "2", "4">>

C1087d == <<"$", "1", "0", "8", "7", ".", "1", "7">>

C35 == <<"3", "5">>

C35001 == <<"3", "5", ".", "0", "0", "1">>

CNeg20 == <<"-", "2", "0", ".", "0", "0">>

CParen == <<"(", "1", "2", ".", "3", "4", ")">>

CAbc == <<"a", "b", "c">>

C1234d == <<"$", "1", ",", "2", "3", "4", ".", "5", "6">>

CPadded35 == <<" ", "3", "5", " ">>

C10 == <<"1", "0">>

C20 == <<"2", "0">>

C5 == <<"5">>

\* the decimal text of a natural number
RECURSIVE DigitsText(_)
DigitsText(n) ==
  IF n < 10 THEN <<DigitChars[n + 1]>>
  ELSE DigitsText(n \div 10) \o <<DigitChars[(n % 10) + 1]>>

(* ------------------------------- tables ------------------------------- *)
AllColumns == {"Date", "Description", "Credits", "Debits", "Amount"}

Full == {"Date", "Description", "Credits", "Debits"}

NoUpload == [present |-> FALSE, columns |-> {}, rows |-> <<>>]

Row(d, desc, c, deb) ==
  [Date |-> d, Description |-> desc, Credits |-> c, Debits |-> deb,
   Amount |-> Absent]

demo_df ==
  [present |-> TRUE, columns |-> Full,
   rows |-> << Row(D0201, VictorChat, C35d, Empty),
               Row(D0201, VictorChat, C35d, Empty),
               Row(D0201, VictorOther, C459d, Empty),
               Row(D0202, OssiumChat, C120d, Empty),
               Row(D0202, OssiumGift, C45d, Empty),
               Row(D0203, DmanChat, C329d, Empty),
               Row(D0203, VictorChat, C1087d, Empty) >>]

Cells(cols, c, S) == IF c \in cols THEN S ELSE {Absent}

\* the rows a table with the columns cols can hold, cells drawn from the
\* given texts
RowSet(cols, Dates, Descs, Creds, Debs, Amts) ==
  [Date : Cells(cols, "Date", Dates),
   Description : Cells(cols, "Description", Descs),
   Credits : Cells(cols, "Credits", Creds),
   Debits : Cells(cols, "Debits", Debs),
   Amount : Cells(cols, "Amount", Amts)]

\* one long table: row i is paid by its own user u<i>; rows 2k and 2k + 1
\* carry the same credits, so totals tie in pairs
LongTable ==
  [present |-> TRUE, columns |-> Full,
   rows |-> [i \in 1..LongRows |->
               Row(D0201, <<"u">> \o DigitsText(i) \o <<" ">> \o <<"c","h","a","t">>,
                   DigitsText(i \div 2), Empty)]]

(* -------------------------------- Init -------------------------------- *)
NoPercent == [prefix |-> "", kind |-> "none", value |-> 0]

\* The script starts with the sidebar toggle and the uploader's file: the
\* demo toggle on (the uploader is then not shown, uploaded = None), no file,
\* one of the tables of Extra, or a table with one of the column sets, at most
\* N rows and cells drawn from the given texts.
InitWith(ColSets, Dates, Descs, Creds, Debs, Amts, N, Extra) ==
  /\ pc = "start"
  /\ \/ /\ show_demo = TRUE
        /\ uploaded = NoUpload
     \/ /\ show_demo = FALSE
        /\ uploaded \in Extra \cup {NoUpload}
     \/ /\ show_demo = FALSE
        /\ \E cols \in ColSets, n \in 0..N :
             \E r \in [1..n -> RowSet(cols, Dates, Descs, Creds, Debs, Amts)] :
               uploaded = [present |-> TRUE, columns |-> cols, rows |-> r]
  /\ has_df = FALSE
  /\ columns = {}
  /\ df = <<>>
  /\ error = ""
  /\ info = ""
  /\ pre = 0
  /\ post = 0
  /\ removed = 0
  /\ total = 0
  /\ whales = <<>>
  /\ top10 = <<>>
  /\ top3 = <<>>
  /\ total_whales = 0
  /\ transactions = 0
  /\ days_span = 0
  /\ k4_value = NoPercent
  /\ k4 = NoPercent
  /\ ranking = <<>>

\* every combination of columns, one text per cell
InitSchema ==
  InitWith(SUBSET AllColumns, {D0201}, {AmyChat}, {C35}, {C5}, {CNeg20, C35},
           MaxRowsSchema, {})

\* the ways a money cell and a description are written
InitCells ==
  InitWith({Full, {"Date"}}, {D0201},
           {AmyChat, BobTabChat, BobSpacesChat, PaddedZedGift, Blank, NaN},
           {C1234d, CParen, CAbc, CPadded35, CNeg20, NaN, C35d},
           {NaN}, {NaN}, MaxRowsCells, {})

\* one payer, the same amount written three ways, with and without Debits
InitKey ==
  InitWith({Full, {"Date", "Description", "Credits"}, {"Date"}}, {D0201, D0202},
           {AmyChat}, {C35d, C35, C35001}, {NaN, C5}, {NaN}, MaxRowsKey, {})

\* dates that parse or not, a named and a missing payer, credits of both signs
InitLedger ==
  InitWith({Full, {"Date"}}, {D0201, BadDate}, {AmyChat, NaN},
           {C35d, CNeg20}, {NaN}, {NaN}, MaxRowsLedger, {})

\* four payers with credits that tie, and the long table
InitRank ==
  InitWith({Full, {"Date"}}, {D0201}, {AmyChat, BobGift, ZedChat, KimVideo},
           {C10, C20}, {NaN}, {NaN}, MaxRowsRank, {LongTable})

(* ------------------------------- actions ------------------------------ *)
\* Load data: the demo table, the uploaded table, or no table
Load ==
  /\ pc = "start"
  /\ LET src == IF show_demo THEN demo_df ELSE uploaded
     IN /\ has_df' = src.present
        /\ columns' = src.columns
        /\ df' = [i \in 1..Len(src.rows) |-> [idx |-> i - 1] @@ src.rows[i]]
  /\ pc' = "loaded"
  /\ UNCHANGED <<show_demo, uploaded, error, info, pre, post, removed, total,
                 whales, top10, top3, total_whales, transactions, days_span,
                 k4_value, k4, ranking>>

\* df is None: the "Ready when you are." card
Ready ==
  /\ pc = "loaded"
  /\ ~has_df
  /\ pc' = "ready"
  /\ UNCHANGED <<show_demo, uploaded, has_df, columns, df, error, info, pre,
                 post, removed, total, whales, top10, top3, total_whales,
                 transactions, days_span, k4_value, k4, ranking>>

\* a required column is missing: st.error and st.stop()
RequireColumns ==
  /\ pc = "loaded"
  /\ has_df
  /\ ~(required \subseteq columns)
  /\ error' = "CSV must include columns: Date, Description, Credits"
  /\ pc' = "stopped"
  /\ UNCHANGED <<show_demo, uploaded, has_df, columns, df, info, pre, post,
                 removed, total, whales, top10, top3, total_whales,
                 transactions, days_span, k4_value, k4, ranking>>

\* the derived columns amount, user, type and dt
Normalize ==
  /\ pc = "loaded"
  /\ has_df
  /\ required \subseteq columns
  /\ df' = [i \in 1..Len(df) |->
              [amount |-> money_to_float(df[i].Credits),
               user |-> extract_user(df[i].Description),
               type |-> classify_type(df[i].Description),
               dt |-> to_datetime(df[i].Date)] @@ df[i]]
  /\ pc' = "normalized"
  /\ UNCHANGED <<show_demo, uploaded, has_df, columns, error, info, pre, post,
                 removed, total, whales, top10, top3, total_whales,
                 transactions, days_span, k4_value, k4, ranking>>

\* rows whose date did not parse are dropped; day is the date of dt
DropNaT ==
  /\ pc = "normalized"
  /\ LET kept == dropna_dt(df)
     IN df' = [i \in 1..Len(kept) |-> [day |-> kept[i].dt] @@ kept[i]]
  /\ pc' = "dated"
  /\ UNCHANGED <<show_demo, uploaded, has_df, columns, error, info, pre, post,
                 removed, total, whales, top10, top3, total_whales,
                 transactions, days_span, k4_value, k4, ranking>>

\* Deduplicate: Date + Description + Credits + Debits (if present)
Dedupe ==
  /\ pc = "dated"
  /\ LET keyed == [i \in 1..Len(df) |->
                     [dedupe_key |-> make_dedupe_key(df[i], columns)] @@ df[i]]
         deduped == drop_duplicates(keyed)
     IN /\ pre' = Len(keyed)
        /\ df' = deduped
        /\ post' = Len(deduped)
        /\ removed' = Len(keyed) - Len(deduped)
  /\ pc' = "deduped"
  /\ UNCHANGED <<show_demo, uploaded, has_df, columns, error, info, total,
                 whales, top10, top3, total_whales, transactions, days_span,
                 k4_value, k4, ranking>>

\* Metrics: total, the ranked payers, the counts and the day span
Metrics ==
  /\ pc = "deduped"
  /\ total' = SumAmount(df)
  /\ \E w \in sort_values(groupby_sum(df)) :
       /\ whales' = w
       /\ top10' = head(w, Top10N)
       /\ top3' = head(w, Top3N)
       /\ total_whales' = Len(w)
  /\ transactions' = post
  /\ days_span' = IF df = <<>> THEN 1
                  ELSE LET span == MaxOf(Days(df)) - MinOf(Days(df)) + 1
                       IN IF span > 1 THEN span ELSE 1
  /\ pc' = "metrics"
  /\ UNCHANGED <<show_demo, uploaded, has_df, columns, df, error, info, pre,
                 post, removed, k4_value, k4, ranking>>

\* KPI row: k4_value is computed with its guard, the card shows the unguarded
\* quotient
RenderKPI ==
  /\ pc = "metrics"
  /\ k4_value' = IF total > 0 /\ Len(top3) > 0
                 THEN [prefix |-> "$"] @@ percent(SumAmount(top3), total)
                 ELSE [prefix |-> "", kind |-> "number", value |-> 0]
  /\ k4' = [prefix |-> ""] @@ percent(SumAmount(top3), total)
  /\ pc' = "kpi"
  /\ UNCHANGED <<show_demo, uploaded, has_df, columns, df, error, info, pre,
                 post, removed, total, whales, top10, top3, total_whales,
                 transactions, days_span, ranking>>

\* Whale Ranking (Top 10): one numbered row per entry of top10, or the note
RenderRanking ==
  /\ pc = "kpi"
  /\ info' = IF Len(top10) = 0 THEN "No earnings found after cleaning." ELSE ""
  /\ ranking' = [i \in 1..Len(top10) |->
                   [rank |-> i, user |-> top10[i].user,
                    amount |-> top10[i].amount]]
  /\ pc' = "reported"
  /\ UNCHANGED <<show_demo, uploaded, has_df, columns, df, error, pre, post,
                 removed, total, whales, top10, top3, total_whales,
                 transactions, days_span, k4_value, k4>>

Next ==
  \/ Load
  \/ Ready
  \/ RequireColumns
  \/ Normalize
  \/ DropNaT
  \/ Dedupe
  \/ Metrics
  \/ RenderKPI
  \/ RenderRanking

SpecSchema == InitSchema /\ [][Next]_vars

SpecCells == InitCells /\ [][Next]_vars

SpecKey == InitKey /\ [][Next]_vars

SpecLedger == InitLedger /\ [][Next]_vars

SpecRank == InitRank /\ [][Next]_vars

(* ------------------------- reading the state -------------------------- *)
\* the rows of the table the run loaded, by position (row i has index i - 1)
Src == IF show_demo THEN demo_df.rows ELSE uploaded.rows

\* the positions whose date parses: the rows that reach deduplication
Dated == {i \in 1..Len(Src) : to_datetime(Src[i].Date) # NaT}

\* the positions of the rows of the current frame
Surviving == {df[k].idx + 1 : k \in 1..Len(df)}

Checked == {"stopped", "normalized", "dated", "deduped", "metrics", "kpi",
            "reported"}

AfterDedupe == {"deduped", "metrics", "kpi", "reported"}

AfterMetrics == {"metrics", "kpi", "reported"}

NoMetrics ==
  /\ total = 0 /\ whales = <<>> /\ top10 = <<>> /\ top3 = <<>>
  /\ total_whales = 0 /\ transactions = 0 /\ days_span = 0
  /\ k4 = NoPercent /\ ranking = <<>>

C2_DedupeKeepsFirstInOrder ==
  pc = "deduped" =>
    /\ \A k \in 1..Len(df) :
         /\ df[k].idx + 1 \in Dated
         /\ \A c \in columns : df[k][c] = Src[df[k].idx + 1][c]
    /\ \A k \in 1..(Len(df) - 1) : df[k].idx < df[k + 1].idx
    /\ Surviving =
         {i \in Dated : \A j \in Dated :
            j < i => make_dedupe_key(Src[j], columns) # make_dedupe_key(Src[i], columns)}
    /\ pre = Cardinality(Dated)
    /\ post = Len(df)
    /\ removed = pre - post
    /\ removed >= 0
    /\ Len(df) <= pre

\* C2 witness: a duplicate was removed from between rows that were kept
C2_Witness ==
  /\ pc = "deduped"
  /\ removed >= 1
  /\ Len(df) >= 2
  /\ \E i \in Dated \ Surviving : \E k \in 1..Len(df) : df[k].idx + 1 > i

\* amounts rounded to 2 decimals (cents)
Round2(x) == RoundDiv(x, 10)

\* the same transaction, as C3 states it: the same timestamp and description,
\* credits and debits equal after parsing and rounding to 2 decimals
SameTransaction(i, j) ==
  /\ to_datetime(Src[i].Date) = to_datetime(Src[j].Date)
  /\ Src[i].Description = Src[j].Description
  /\ Round2(money_to_float(Src[i].Credits)) = Round2(money_to_float(Src[j].Credits))
  /\ ("Debits" \in columns =>
        Round2(money_to_float(Src[i].Debits)) = Round2(money_to_float(Src[j].Debits)))

\* the same cells as written
SameText(i, j) ==
  /\ str(Src[i].Date) = str(Src[j].Date)
  /\ str(Src[i].Description) = str(Src[j].Description)
  /\ str(Src[i].Credits) = str(Src[j].Credits)
  /\ ("Debits" \in columns => str(Src[i].Debits) = str(Src[j].Debits))

C4_CreditsNonNegative ==
  pc \in AfterDedupe => \A k \in 1..Len(df) : df[k].amount >= 0

\* the money parser the specification describes: surrounding whitespace
\* ignored, "$" and "," removed, a parenthesized value read as negative,
\* 0.0 for missing, empty or unparseable text
reference_parse(x) ==
  IF isna(x) THEN 0
  ELSE LET s == remove(remove(strip(str(x)), "$"), ",")
           inner == IF Len(s) >= 2 /\ Head(s) = "(" /\ s[Len(s)] = ")"
                    THEN <<"-">> \o SubSeq(s, 2, Len(s) - 1)
                    ELSE s
           r == float(inner)
       IN IF r.ok THEN r.v ELSE 0

\* C5: the amount of every row is what the reference parser reads in its
\* Credits cell
C5_ParserAgreesWithReference ==
  pc \in (Checked \ {"stopped"}) =>
    \A k \in 1..Len(df) : df[k].amount = reference_parse(df[k].Credits)

\* description.split()[0]: the first token delimited by any whitespace
RECURSIVE first_token(_)
first_token(s) ==
  IF s = <<>> \/ Head(s) \in Whitespace THEN <<>>
  ELSE <<Head(s)>> \o first_token(Tail(s))

\* C9: the payer of every row is the first whitespace-delimited token of its
\* description, and "Unknown" for a missing, empty or blank description
C9_PayerIsFirstToken ==
  pc \in (Checked \ {"stopped"}) =>
    \A k \in 1..Len(df) :
      df[k].user = IF isna(df[k].Description) \/ strip(df[k].Description) = <<>>
                   THEN Unknown
                   ELSE first_token(lstrip(df[k].Description))

\* C6: the Top 3 Share card shows the top-3 sum over the total, within 0..100
\* percent when the total is above 0, and 0% when the total is 0
C6_ShareDefined ==
  pc \in {"kpi", "reported"} =>
    /\ k4.kind = "number"
    /\ total > 0 =>
         /\ k4.value = RoundDiv(SumAmount(top3) * 100, total)
         /\ k4.value >= 0 /\ k4.value <= 100
    /\ total = 0 => k4.value = 0

\* the position in the deduplicated ledger at which a payer first occurs
FirstSeen(u) == CHOOSE k \in 1..Len(df) : df[k].user = u /\ \A j \in 1..(k - 1) : df[j].user # u

\* whales lists every payer of the deduplicated ledger once, with the sum of
\* that payer's credits, in descending order of the sums
RankedDescending ==
  /\ Len(whales) = Cardinality(Users(df))
  /\ {whales[i].user : i \in 1..Len(whales)} = Users(df)
  /\ \A i \in 1..Len(whales) :
       whales[i].amount = SumAmount(SelectSeq(df, LAMBDA r : r.user = whales[i].user))
  /\ \A i \in 1..(Len(whales) - 1) : whales[i].amount >= whales[i + 1].amount

\* top_3 and top_10 are the first 3 and 10 entries, the rows of the ranking
\* card are numbered 1..n in that order
TopSlices ==
  /\ Len(top3) = (IF Len(whales) < 3 THEN Len(whales) ELSE 3)
  /\ Len(top10) = (IF Len(whales) < 10 THEN Len(whales) ELSE 10)
  /\ \A i \in 1..Len(top3) : top3[i] = whales[i]
  /\ \A i \in 1..Len(top10) : top10[i] = whales[i]
  /\ total_whales = Len(whales)
  /\ pc = "reported" =>
       /\ Len(ranking) = Len(top10)
       /\ \A i \in 1..Len(ranking) :
            /\ ranking[i].rank = i
            /\ ranking[i].user = whales[i].user
            /\ ranking[i].amount = whales[i].amount

KeptRows ==
  {i \in Dated : \A j \in Dated :
     j < i => make_dedupe_key(Src[j], columns) # make_dedupe_key(Src[i], columns)}

RECURSIVE SumOver(_, _)
SumOver(S, f) ==
  IF S = {} THEN 0
  ELSE LET x == CHOOSE y \in S : TRUE IN f[x] + SumOver(S \ {x}, f)

\* C10: in the report the per-payer totals add up to the global total, which is the sum of
\* the credits of the surviving rows alone; every surviving row's payer is
\* listed exactly once
C10_PayerTotalsPartitionTotal ==
  pc = "reported" =>
    /\ SumAmount(whales) = total
    /\ total = SumOver(KeptRows, [i \in KeptRows |-> money_to_float(Src[i].Credits)])
    /\ \A k \in 1..Len(df) :
         Cardinality({i \in 1..Len(whales) : whales[i].user = df[k].user}) = 1
    /\ \A i \in 1..Len(whales) : \E k \in 1..Len(df) : df[k].user = whales[i].user
    /\ transactions = Cardinality(KeptRows)

\* C10 witness: a report over two payers after a duplicate was removed and a
\* row was dropped for its date
C10_Witness ==
  /\ pc = "reported"
  /\ removed >= 1
  /\ pre < Len(Src)
  /\ Len(whales) >= 2
  /\ total # 0

====
